---- MODULE Spec2Model ----
(***************************************************************************)
(* The visitor-registration chat widget: the conversation state held by    *)
(* App (messages, currentStep, visitorInfo, isLoading), the send handler   *)
(* handleSend with its three continuations (resolved / resolved with       *)
(* registration_completed / rejected), the UI entry points that reach it   *)
(* (ChatInput.handleSubmit, the three visitor-type buttons, the container  *)
(* click of the second ChatContainer), and the calls of                    *)
(* visitorService.processMessage that are in flight.                       *)
(*                                                                         *)
(* React runs every handler to completion on one thread and re-renders     *)
(* before the next event is delivered, so a handler reads the state of the *)
(* last render (here: the current state) and every setState(prev => ...)   *)
(* is applied to the current state as one atomic step.  Message timestamps *)
(* (new Date()) are not modelled: nothing in the code reads them back      *)
(* except the bubble's time label.                                         *)
(***************************************************************************)
EXTENDS Integers, Sequences, FiniteSets, TLC

VARIABLES
    messages,      \* ChatState.messages: the transcript
    currentStep,   \* ChatState.currentStep
    visitorInfo,   \* ChatState.visitorInfo: a function from the keys present to values
    isLoading,     \* ChatState.isLoading
    inputMessage,  \* ChatInput's own state `message`: the raw text in the input box
    inflight,      \* the processMessage calls awaited by some handleSend, oldest first
    container,     \* which ChatContainer component is mounted
    sent,          \* history: how many calls were issued so far
    stale,         \* history: how many calls in flight were issued before the last
                   \* reset (they are the first entries of inflight)
    ev             \* history: the handler step that produced the current state

vars == <<messages, currentStep, visitorInfo, isLoading, inputMessage, inflight,
          container, sent, stale, ev>>

(***************************************************************************)
(* Bounds of the model.                                                    *)
(***************************************************************************)
MaxSends == 2      \* calls issued in one run

(***************************************************************************)
(* Text.  Raw input text is a sequence of characters; message contents are *)
(* strings.                                                                *)
(***************************************************************************)
maxLength == 300

IsSpace(c) == c = " "

RECURSIVE TrimStart(_)
TrimStart(s) ==
    IF s # <<>> /\ IsSpace(Head(s)) THEN TrimStart(Tail(s)) ELSE s

RECURSIVE TrimEnd(_)
TrimEnd(s) ==
    IF s # <<>> /\ IsSpace(s[Len(s)]) THEN TrimEnd(SubSeq(s, 1, Len(s) - 1)) ELSE s

RECURSIVE Join(_)
Join(s) == IF s = <<>> THEN "" ELSE Head(s) \o Join(Tail(s))

\* variant: the text is passed on as typed
TrimNothing(s) == Join(s)

\* String.prototype.trim: strip leading and trailing white space
Trim(s) == Join(TrimEnd(TrimStart(s)))

\* what the user may have in the input box (the input's onChange stores it as typed)
TypedTexts == { <<>>, <<" ">>, <<" ", "h", "i", " ">> }

(***************************************************************************)
(* Messages and the ChatState.                                             *)
(***************************************************************************)
Msg(type, content) == [type |-> type, content |-> content]

WELCOME == "Welcome to DPL! I am your AI receptionist. Please select your visitor type:"
RESTART_PROMPT == "Click anywhere to start a new registration."
APOLOGY == "Sorry, I encountered an error. Please try again."

INITIAL_STATE ==
    [ messages    |-> << Msg("bot", WELCOME) >>,
      currentStep |-> "visitor_type",
      visitorInfo |-> <<>>,
      isLoading   |-> FALSE ]

\* the state the handlers read (`state`) and the updaters receive (`prev`)
state ==
    [ messages    |-> messages,
      currentStep |-> currentStep,
      visitorInfo |-> visitorInfo,
      isLoading   |-> isLoading ]

setState(s) ==
    /\ messages' = s.messages
    /\ currentStep' = s.currentStep
    /\ visitorInfo' = s.visitorInfo
    /\ isLoading' = s.isLoading

(***************************************************************************)
(* JavaScript values.  An optional value is a sequence of length 0         *)
(* (undefined) or 1.                                                       *)
(***************************************************************************)
undefined == <<>>
Some(v) == <<v>>

\* { ...a, ...b }: b's keys take b's values, a's other keys keep theirs
Spread(a, b) ==
    [k \in (DOMAIN a) \cup (DOMAIN b) |-> IF k \in DOMAIN b THEN b[k] ELSE a[k]]

\* { ...a, ...opt } where opt may be undefined (spreading undefined adds nothing)
SpreadOpt(a, opt) == IF opt = undefined THEN a ELSE Spread(a, opt[1])

\* opt?.registration_completed, as a condition
RegistrationCompleted(opt) ==
    /\ opt # undefined
    /\ "registration_completed" \in DOMAIN opt[1]
    /\ opt[1]["registration_completed"] = TRUE

\* variant: nextStep ?? fallback, where only undefined falls back
OrElseNullish(opt, fallback) ==
    IF opt # undefined THEN opt[1] ELSE fallback

\* nextStep || fallback: undefined and the empty string are falsy
OrElse(opt, fallback) ==
    IF opt # undefined /\ opt[1] # "" THEN opt[1] ELSE fallback

(***************************************************************************)
(* The backend, an external collaborator: what POST /process-message/ may  *)
(* answer.  next_step and visitor_info are optional in the body.           *)
(***************************************************************************)
Data(response, next_step, visitor_info) ==
    [ response |-> response, next_step |-> next_step, visitor_info |-> visitor_info ]

ResponseData ==
    { Data("Done.", undefined, undefined),
      Data("Done.", Some(""), Some([full_name |-> "A"])),
      Data("Done.", Some("full_name"), Some([full_name |-> "B", phone |-> "123"])),
      Data("Done.", Some("complete"), undefined),
      Data("Done.", Some("full_name"), Some([registration_completed |-> FALSE])),
      Data("Done.", Some("full_name"), Some([registration_completed |-> TRUE])),
      Data("Done.", undefined, Some([registration_completed |-> TRUE])) }

(***************************************************************************)
(* visitorService.processMessage: one POST carrying the three arguments;   *)
(* the body of the answer is mapped field by field.                        *)
(***************************************************************************)
processMessage(message, step, info) ==
    [ message |-> message, current_step |-> step, visitor_info |-> info ]

processMessageResult(data) ==
    [ response    |-> data.response,
      nextStep    |-> data.next_step,
      visitorInfo |-> data.visitor_info ]

(***************************************************************************)
(* App: the updaters handed to setState, as functions of prev.             *)
(***************************************************************************)
\* variant: a reset that starts the new conversation below the old transcript
resetChatKeepsTranscript ==
    [ INITIAL_STATE EXCEPT !.messages = Append(messages, Msg("bot", WELCOME)) ]

\* variant: a reset that keeps the collected visitorInfo
resetChatKeepsVisitorInfo == [ INITIAL_STATE EXCEPT !.visitorInfo = visitorInfo ]

resetChat == INITIAL_STATE

\* handleSend's first test: the terminal short-circuit
IsTerminal(s) == s.currentStep = "complete" /\ ~s.isLoading

\* variant: the user message is appended without raising isLoading
AddUserMessageNotLoading(prev, message) ==
    [ prev EXCEPT !.messages = Append(prev.messages, Msg("user", message)) ]

AddUserMessage(prev, message) ==
    [ prev EXCEPT !.messages = Append(prev.messages, Msg("user", message)),
                  !.isLoading = TRUE ]

\* variant: the terminal transition forgets the restart prompt
CompletedUpdateNoPrompt(prev, result) ==
    [ messages    |-> Append(prev.messages, Msg("bot", result.response)),
      currentStep |-> "complete",
      visitorInfo |-> SpreadOpt(prev.visitorInfo, result.visitorInfo),
      isLoading   |-> FALSE ]

\* variant: the terminal transition leaves isLoading as it was
CompletedUpdateKeepsLoading(prev, result) ==
    [ messages    |-> prev.messages \o << Msg("bot", result.response),
                                          Msg("bot", RESTART_PROMPT) >>,
      currentStep |-> "complete",
      visitorInfo |-> SpreadOpt(prev.visitorInfo, result.visitorInfo),
      isLoading   |-> prev.isLoading ]

\* variant: the terminal transition honours a returned next_step
CompletedUpdateUsesNextStep(prev, result) ==
    [ messages    |-> prev.messages \o << Msg("bot", result.response),
                                          Msg("bot", RESTART_PROMPT) >>,
      currentStep |-> OrElse(result.nextStep, "complete"),
      visitorInfo |-> SpreadOpt(prev.visitorInfo, result.visitorInfo),
      isLoading   |-> FALSE ]

CompletedUpdate(prev, result) ==
    [ messages    |-> prev.messages \o << Msg("bot", result.response),
                                          Msg("bot", RESTART_PROMPT) >>,
      currentStep |-> "complete",
      visitorInfo |-> SpreadOpt(prev.visitorInfo, result.visitorInfo),
      isLoading   |-> FALSE ]

\* variant: the returned visitor_info replaces the accumulated one
NormalUpdateReplacesInfo(prev, result) ==
    [ messages    |-> Append(prev.messages, Msg("bot", result.response)),
      currentStep |-> OrElse(result.nextStep, prev.currentStep),
      visitorInfo |-> IF result.visitorInfo = undefined
                      THEN prev.visitorInfo ELSE result.visitorInfo[1],
      isLoading   |-> FALSE ]

NormalUpdate(prev, result) ==
    [ messages    |-> Append(prev.messages, Msg("bot", result.response)),
      currentStep |-> OrElse(result.nextStep, prev.currentStep),
      visitorInfo |-> SpreadOpt(prev.visitorInfo, result.visitorInfo),
      isLoading   |-> FALSE ]

\* variant: the catch branch forgets to clear isLoading
ErrorUpdateKeepsLoading(prev) ==
    [ prev EXCEPT !.messages = Append(prev.messages, Msg("bot", APOLOGY)) ]

\* variant: the apology replaces the transcript instead of extending it
ErrorUpdateDropsTranscript(prev) ==
    [ prev EXCEPT !.messages = << Msg("bot", APOLOGY) >>,
                  !.isLoading = FALSE ]

ErrorUpdate(prev) ==
    [ prev EXCEPT !.messages = Append(prev.messages, Msg("bot", APOLOGY)),
                  !.isLoading = FALSE ]

\* the continuation of handleSend after a fulfilled await
ResolvedUpdate(prev, result) ==
    IF RegistrationCompleted(result.visitorInfo)
    THEN CompletedUpdate(prev, result)
    ELSE NormalUpdate(prev, result)

(***************************************************************************)
(* History record of the last handler step.                                *)
(***************************************************************************)
Event(op, message, call, data) ==
    [ op |-> op, message |-> message, call |-> call, data |-> data ]

\* the model stops issuing calls at its bounds; a reset is never bounded
WithinBounds ==
    \/ IsTerminal(state)
    \/ sent < MaxSends

RemoveAt(s, i) == SubSeq(s, 1, i - 1) \o SubSeq(s, i + 1, Len(s))

\* variant: a send equal to a call already in flight issues no second call
handleSendSkipsDuplicate(message) ==
    IF IsTerminal(state)
    THEN /\ setState(resetChat)
         /\ inflight' = inflight
         /\ sent' = sent
         /\ stale' = Len(inflight)
         /\ ev' = Event("reset", message, undefined, undefined)
    ELSE /\ setState(AddUserMessage(state, message))
         /\ IF \E i \in 1..Len(inflight) :
                  inflight[i] = processMessage(message, currentStep, visitorInfo)
            THEN inflight' = inflight /\ sent' = sent
            ELSE /\ inflight' = Append(inflight,
                                       processMessage(message, currentStep, visitorInfo))
                 /\ sent' = sent + 1
         /\ stale' = stale
         /\ ev' = Event("send", message,
                        Some(processMessage(message, currentStep, visitorInfo)), undefined)

(***************************************************************************)
(* handleSend, up to its await.                                            *)
(***************************************************************************)
handleSend(message) ==
    IF IsTerminal(state)
    THEN /\ setState(resetChat)
         /\ inflight' = inflight
         /\ sent' = sent
         /\ stale' = Len(inflight)
         /\ ev' = Event("reset", message, undefined, undefined)
    ELSE /\ setState(AddUserMessage(state, message))
         /\ inflight' = Append(inflight, processMessage(message, currentStep, visitorInfo))
         /\ sent' = sent + 1
         /\ stale' = stale
         /\ ev' = Event("send", message,
                        Some(processMessage(message, currentStep, visitorInfo)), undefined)

(***************************************************************************)
(* handleSend after its await: the call inflight[i] is answered with data, *)
(* or fails.  Answers arrive in any order.                                 *)
(***************************************************************************)
handleSendResolved ==
    \E i \in 1..Len(inflight), data \in ResponseData :
        /\ setState(ResolvedUpdate(state, processMessageResult(data)))
        /\ inflight' = RemoveAt(inflight, i)
        /\ ev' = Event("resolved", inflight[i].message, Some(inflight[i]), Some(data))
        /\ stale' = IF i <= stale THEN stale - 1 ELSE stale
        /\ UNCHANGED <<inputMessage, container, sent>>

handleSendRejected ==
    \E i \in 1..Len(inflight) :
        /\ setState(ErrorUpdate(state))
        /\ inflight' = RemoveAt(inflight, i)
        /\ ev' = Event("rejected", inflight[i].message, Some(inflight[i]), undefined)
        /\ stale' = IF i <= stale THEN stale - 1 ELSE stale
        /\ UNCHANGED <<inputMessage, container, sent>>

(***************************************************************************)
(* The UI entry points.                                                    *)
(***************************************************************************)
\* the `disabled` prop ChatInput receives.  ChatContainer.tsx passes
\* isLoading={isLoading}, a prop ChatInput does not declare, so `disabled`
\* keeps its default; the second ChatContainer passes disabled={isLoading}.
InputDisabled == IF container = "part_001" THEN isLoading ELSE FALSE

\* <input onChange>: a disabled input takes no text
onChange ==
    \E t \in TypedTexts :
        /\ ~InputDisabled
        /\ Len(t) <= maxLength
        /\ t # inputMessage
        /\ inputMessage' = t
        /\ UNCHANGED <<messages, currentStep, visitorInfo, isLoading, inflight,
                       container, sent, stale, ev>>

\* ChatInput.handleSubmit
handleSubmit ==
    /\ Trim(inputMessage) # "" /\ ~InputDisabled
    /\ WithinBounds
    /\ handleSend(Trim(inputMessage))
    /\ inputMessage' = <<>>
    /\ UNCHANGED container

\* the three buttons App renders while currentStep is 'visitor_type'
handleVisitorType ==
    \E type \in { "guest", "vendor", "3" } :
        /\ currentStep = "visitor_type"
        /\ WithinBounds
        /\ handleSend(type)
        /\ UNCHANGED <<inputMessage, container>>

\* the second ChatContainer's onClick; its optional prop currentStep is
\* whatever the parent passes: the state's currentStep, or nothing.
containerClick ==
    \E prop \in { undefined, Some(currentStep) } :
        /\ container = "part_001"
        /\ prop = Some("complete")
        /\ WithinBounds
        /\ handleSend("")
        /\ UNCHANGED <<inputMessage, container>>

Init ==
    /\ messages = INITIAL_STATE.messages
    /\ currentStep = INITIAL_STATE.currentStep
    /\ visitorInfo = INITIAL_STATE.visitorInfo
    /\ isLoading = INITIAL_STATE.isLoading
    /\ inputMessage = <<>>
    /\ inflight = <<>>
    /\ sent = 0
    /\ stale = 0
    /\ container \in { "ChatContainer.tsx", "part_001" }
    /\ ev = Event("init", "", undefined, undefined)

Next ==
    \/ onChange
    \/ handleSubmit
    \/ handleVisitorType
    \/ containerClick
    \/ handleSendResolved
    \/ handleSendRejected

Spec == Init /\ [][Next]_vars

\* every processMessage call eventually resolves or rejects
FairSpec == Spec /\ WF_vars(handleSendResolved \/ handleSendRejected)

(***************************************************************************)
(* Vocabulary of the properties.                                           *)
(***************************************************************************)
\* this step is a handler step that recorded op (every handler step but
\* onChange changes the transcript and writes ev)
StepOf(op) == ev'.op = op /\ messages' # messages

\* this step is an invocation of handleSend
SendStep == StepOf("send") \/ StepOf("reset")

IsPrefix(s, t) == Len(s) <= Len(t) /\ SubSeq(t, 1, Len(s)) = s

Last(s) == s[Len(s)]

\* new is old shallowly overwritten by the optional returned fields
IsShallowMerge(new, old, opt) ==
    LET ret == IF opt = undefined THEN {} ELSE DOMAIN opt[1] IN
    /\ DOMAIN new = (DOMAIN old) \cup ret
    /\ \A k \in ret : new[k] = opt[1][k]
    /\ \A k \in (DOMAIN old) \ ret : new[k] = old[k]

(***************************************************************************)
(* C1: at most one processMessage call is in flight at any time.           *)
(* Refuted by the code: the visitor-type buttons (and, under               *)
(* ChatContainer.tsx, the never-disabled input) send while isLoading.      *)
(***************************************************************************)
C1_SingleInFlight == Len(inflight) <= 1

(***************************************************************************)
(* C2: isLoading is true exactly while some call issued by handleSend has  *)
(* not yet resolved.  Refuted: with two calls in flight the first answer   *)
(* clears isLoading while the second call is still pending.                *)
(***************************************************************************)
C2_LoadingIffPending == isLoading <=> (inflight # <<>>)

(***************************************************************************)
(* C3: terminal reset.  From currentStep = "complete" and not loading,     *)
(* handleSend with any payload (the empty string included) makes the state *)
(* exactly INITIAL_STATE, appends no user message and issues no call.      *)
(***************************************************************************)
C3_TerminalReset ==
    [][ (IsTerminal(state) /\ SendStep) =>
            /\ state' = INITIAL_STATE
            /\ inflight' = inflight
            /\ sent' = sent ]_vars

C3_Witness ==
    /\ ev.op = "reset"
    /\ ev.message = ""
    /\ state = INITIAL_STATE

(***************************************************************************)
(* C4: terminal two-message transition.  An answer whose visitor_info has  *)
(* registration_completed = true appends the response text and then the    *)
(* fixed restart prompt, sets currentStep to "complete" whatever next_step *)
(* it carries, merges the returned visitor_info and clears isLoading.      *)
(***************************************************************************)
C4_TerminalTransition ==
    [][ (StepOf("resolved") /\ RegistrationCompleted(ev'.data[1].visitor_info)) =>
            /\ messages' = messages \o << Msg("bot", ev'.data[1].response),
                                          Msg("bot", RESTART_PROMPT) >>
            /\ currentStep' = "complete"
            /\ IsShallowMerge(visitorInfo', visitorInfo, ev'.data[1].visitor_info)
            /\ isLoading' = FALSE ]_vars

C4_Witness ==
    /\ ev.op = "resolved"
    /\ RegistrationCompleted(ev.data[1].visitor_info)
    /\ ev.data[1].next_step = Some("full_name")
    /\ currentStep = "complete"
    /\ "full_name" \in DOMAIN visitorInfo
    /\ Last(messages) = Msg("bot", RESTART_PROMPT)

(***************************************************************************)
(* C5: failure absorption.  When the call of a turn rejects, the           *)
(* transcript gains exactly the apology, isLoading becomes false, and      *)
(* currentStep and visitorInfo equal their values before that turn started *)
(* (the values the call was issued with).  Refuted: another turn that      *)
(* overlaps the failing one may have changed them in between.              *)
(***************************************************************************)
C5_FailureAbsorption ==
    [][ StepOf("rejected") =>
            /\ messages' = Append(messages, Msg("bot", APOLOGY))
            /\ isLoading' = FALSE
            /\ currentStep' = ev'.call[1].current_step
            /\ visitorInfo' = ev'.call[1].visitor_info ]_vars

(***************************************************************************)
(* C6: merge monotonicity.  Every successful answer leaves visitorInfo     *)
(* equal to the previous visitorInfo shallowly overwritten by the returned *)
(* fields, and no step but the reset removes a key from visitorInfo.       *)
(***************************************************************************)
C6_MergeMonotone ==
    [][ /\ StepOf("resolved") =>
              IsShallowMerge(visitorInfo', visitorInfo, ev'.data[1].visitor_info)
        /\ ~StepOf("reset") => (DOMAIN visitorInfo) \subseteq (DOMAIN visitorInfo') ]_vars

\* full_name was overwritten by the last answer, phone kept from an earlier one
C6_Witness ==
    /\ ev.op = "resolved"
    /\ ev.data[1].visitor_info = Some([full_name |-> "A"])
    /\ visitorInfo = [full_name |-> "A", phone |-> "123"]

C8_AppendOnly ==
    [][ \/ IsPrefix(messages, messages')
        \/ /\ IsTerminal(state)
           /\ StepOf("reset")
           /\ messages' = << Msg("bot", WELCOME) >> ]_vars

C8_Witness ==
    /\ ev.op = "rejected"
    /\ Len(messages) >= 4
    /\ Last(messages) = Msg("bot", APOLOGY)

(***************************************************************************)
(* C9 as stated: an ordinary answer (no registration_completed) appends    *)
(* exactly the response, clears isLoading, sets currentStep to the         *)
(* returned next_step whenever one is present, any string included, and    *)
(* leaves it unchanged when next_step is omitted.                          *)
(***************************************************************************)
C9_Original ==
    [][ (StepOf("resolved") /\ ~RegistrationCompleted(ev'.data[1].visitor_info)) =>
            /\ messages' = Append(messages, Msg("bot", ev'.data[1].response))
            /\ isLoading' = FALSE
            /\ currentStep' = IF ev'.data[1].next_step # undefined
                              THEN ev'.data[1].next_step[1]
                              ELSE currentStep ]_vars

(***************************************************************************)
(* C9 amended: as above, but currentStep becomes the returned next_step    *)
(* only when it is a non-empty string; it stays unchanged when next_step   *)
(* is omitted or is the empty string.                                      *)
(***************************************************************************)
C9_OrdinaryTurn ==
    [][ (StepOf("resolved") /\ ~RegistrationCompleted(ev'.data[1].visitor_info)) =>
            /\ messages' = Append(messages, Msg("bot", ev'.data[1].response))
            /\ isLoading' = FALSE
            /\ currentStep' = IF ev'.data[1].next_step \notin { undefined, Some("") }
                              THEN ev'.data[1].next_step[1]
                              ELSE currentStep ]_vars

\* an empty next_step was answered after the step had moved on, and the step stayed
C9_Witness ==
    /\ ev.op = "resolved"
    /\ ev.data[1].next_step = Some("")
    /\ currentStep = "full_name"
    /\ Last(messages) = Msg("bot", ev.data[1].response)
    /\ ~isLoading

(***************************************************************************)
(* C10: no escape from a hung call.  While a call stays pending, isLoading *)
(* stays true.  Refuted: the answer to a second, overlapping call clears   *)
(* isLoading while the first is still pending.                             *)
(***************************************************************************)
C10_NoEscape ==
    [][ (isLoading /\ inflight # <<>> /\ inflight' # <<>>
            /\ Len(inflight') >= Len(inflight) - 1) => isLoading' ]_vars

(***************************************************************************)
(* C11 as stated: every invocation of send appends one or more messages    *)
(* and issues at most one call, a non-reset send exactly one.              *)
(***************************************************************************)
C11_Original ==
    [][ SendStep =>
            /\ IsPrefix(messages, messages') /\ Len(messages') > Len(messages)
            /\ sent' \in { sent, sent + 1 }
            /\ ~IsTerminal(state) => sent' = sent + 1 ]_vars

(***************************************************************************)
(* C11 amended: a non-reset invocation of send appends exactly the user    *)
(* message and issues exactly one call, so the same text sent twice gives  *)
(* two user entries and two calls; the terminal-reset invocation appends   *)
(* nothing (it replaces the transcript by the welcome message) and issues  *)
(* no call.                                                                *)
(***************************************************************************)
C11_SideEffects ==
    [][ SendStep =>
            IF IsTerminal(state)
            THEN /\ messages' = << Msg("bot", WELCOME) >>
                 /\ sent' = sent /\ inflight' = inflight
            ELSE /\ messages' = Append(messages, Msg("user", ev'.message))
                 /\ sent' = sent + 1
                 /\ inflight' = Append(inflight,
                                       processMessage(ev'.message, currentStep, visitorInfo))
      ]_vars

\* the same text sent twice: two user entries, two calls
C11_Witness ==
    /\ ev.op = "send"
    /\ messages = << Msg("bot", WELCOME), Msg("user", "guest"), Msg("user", "guest") >>
    /\ Len(inflight) = 2 /\ inflight[1] = inflight[2]
    /\ sent = 2

C13_SessionIsolation ==
    [][ stale' < stale => state' = state ]_vars

(***************************************************************************)
(* C14: whenever the accumulated visitorInfo carries                       *)
(* registration_completed = true, currentStep is "complete".  Refuted: the *)
(* code tests the returned visitor_info, not the merged one, so an         *)
(* ordinary answer that arrives after a terminal one moves currentStep on. *)
(***************************************************************************)
C14_FlagImpliesComplete ==
    RegistrationCompleted(Some(visitorInfo)) => currentStep = "complete"

(***************************************************************************)
(* C15: every turn completes and the session stays usable.  If every call  *)
(* eventually resolves or rejects, then after any send a state is reached  *)
(* in which no call is pending, the last transcript entry is a bot         *)
(* message, isLoading is false and the input accepts a submission; and     *)
(* right after any answer or failure the input accepts a submission.       *)
(***************************************************************************)
C15_TurnCompletes ==
    /\ (inflight # <<>>) ~>
          (inflight = <<>> /\ ~isLoading /\ ~InputDisabled
              /\ Last(messages).type = "bot")
    /\ [](ev.op \in { "resolved", "rejected" } => ~isLoading /\ ~InputDisabled)

C15_Witness ==
    /\ ev.op = "rejected"
    /\ container = "part_001"
    /\ inflight = <<>>
    /\ ~isLoading /\ ~InputDisabled
    /\ Last(messages) = Msg("bot", APOLOGY)

(***************************************************************************)
(* C16 as stated: in every state with currentStep = "complete",            *)
(* visitorInfo.registration_completed is true and the last transcript      *)
(* entry is the restart prompt.                                            *)
(***************************************************************************)
C16_Original ==
    currentStep = "complete" =>
        /\ RegistrationCompleted(Some(visitorInfo))
        /\ Last(messages) = Msg("bot", RESTART_PROMPT)

(***************************************************************************)
(* C16 amended: currentStep becomes "complete" only by a successful        *)
(* answer: either one carrying registration_completed = true, which leaves *)
(* the flag set and the restart prompt last, or an ordinary answer whose   *)
(* next_step is the token "complete", which sets neither.                  *)
(***************************************************************************)
C16_TerminalEntry ==
    [][ (currentStep' = "complete" /\ currentStep # "complete") =>
            /\ StepOf("resolved")
            /\ IF RegistrationCompleted(ev'.data[1].visitor_info)
               THEN /\ RegistrationCompleted(Some(visitorInfo'))
                    /\ Last(messages') = Msg("bot", RESTART_PROMPT)
               ELSE ev'.data[1].next_step = Some("complete") ]_vars

\* the terminal step entered through the ordinary path
C16_Witness ==
    /\ currentStep = "complete"
    /\ ev.op = "resolved"
    /\ ev.data[1].next_step = Some("complete")
    /\ ~RegistrationCompleted(Some(visitorInfo))
    /\ Last(messages) = Msg("bot", ev.data[1].response)

(***************************************************************************)
(* C17: in every reachable state currentStep = "complete" implies          *)
(* isLoading = false, so the terminal test of handleSend never fails on    *)
(* its isLoading conjunct.                                                 *)
(***************************************************************************)
C17_CompleteNotLoading == currentStep = "complete" => ~isLoading

\* the terminal step with a call still pending
C17_Witness ==
    /\ currentStep = "complete"
    /\ inflight # <<>>
    /\ IsTerminal(state)

(***************************************************************************)
(* C18: no empty user turn.  No user message with empty or white-space     *)
(* content is ever in the transcript, no call carries such a message, and  *)
(* a send with such a payload is always a terminal reset.                  *)
(***************************************************************************)
BlankTexts ==
    { Join(t) : t \in { u \in TypedTexts : \A i \in 1..Len(u) : IsSpace(u[i]) } }

C18_NoEmptyTurn ==
    /\ \A i \in 1..Len(messages) :
          messages[i].type = "user" => messages[i].content \notin BlankTexts
    /\ \A i \in 1..Len(inflight) : inflight[i].message \notin BlankTexts
    /\ (ev.op # "init" /\ ev.message \in BlankTexts) => ev.op = "reset"

\* a click reset with only white space typed in the input
C18_Witness ==
    /\ ev.op = "reset"
    /\ ev.message \in BlankTexts
    /\ inputMessage = <<" ">>
    /\ \A i \in 1..Len(messages) : messages[i].type = "bot"

====
